---------------------------- MODULE Spec2Model ----------------------------
(***************************************************************************)
(* Voice recorder widget of Sauti-Mpya (components/VoiceRecorder, the      *)
(* audio utilities it calls and the chat page that hosts it).              *)
(*                                                                         *)
(* The widget is a React function component.  Its state (useState) and its *)
(* refs (useRef) are the variables below; every event handler, every       *)
(* continuation after an await and every callback the browser delivers is  *)
(* one action.  The browser side (getUserMedia calls in flight, capture    *)
(* streams, MediaRecorder objects, interval timers, object URLs) is        *)
(* modelled as far as the widget's code can observe or leak it.            *)
(***************************************************************************)
EXTENDS Integers, Sequences, FiniteSets, TLC

(* ------------------------------ bounds --------------------------------- *)
\* number of startRecording() calls that reach getUserMedia in one mount
MaxStarts == 2
\* cap of the elapsed-seconds counter
MaxDuration == 5
\* cap of the number of fragments kept in audioChunksRef
MaxChunks == 2
\* cap of the elapsed-seconds counter in the long-recording specification
MaxLongDuration == 302
\* the longest text handed to the classifier, in pieces of Words
MaxWords == 2
\* the number of text and voice sends of the chat page
MaxSends == 2

(* ----------------------------- constants ------------------------------- *)
Null == 0
NoError == << >>
NoBlob == << >>

CallIds == 1..MaxStarts
TimerIds == 1..(2 * MaxStarts)

\* fragments the runtime may deliver: a zero-length one and two non-empty ones
Fragments == { << >>, <<1>>, <<2>> }

\* getSupportedMimeType: the preference list and the fallback
types == << "audio/webm", "audio/webm;codecs=opus", "audio/ogg;codecs=opus", "audio/mp4" >>
FallbackMimeType == "audio/webm"

\* runtimes the model is checked against (sets of types isTypeSupported accepts)
TypeSupportChoices ==
    { {},
      {"audio/webm", "audio/webm;codecs=opus"},
      {"audio/ogg;codecs=opus", "audio/mp4"} }

\* the recording length from which the advisory is rendered (duration >= 300)
AdvisoryThreshold == 300

\* error.name of a rejected getUserMedia
RejectNames == { "NotAllowedError", "NotFoundError", "OtherError" }

\* messages are sequences of words
UnsupportedMessage ==
    << "Audio", "recording", "is", "not", "supported", "in", "your", "browser." >>
PermissionDeniedMessage ==
    << "Microphone", "permission", "denied.", "Please", "allow", "microphone", "access", "to", "record", "voice", "messages." >>
NoMicrophoneMessage ==
    << "No", "microphone", "found.", "Please", "connect", "a", "microphone", "and", "try", "again." >>
AccessFailedMessage ==
    << "Failed", "to", "access", "microphone.", "Please", "check", "your", "browser", "settings." >>
NotSupportedErrorMessage == << "NotSupportedError" >>

VARIABLES
    \* ---- the chat page (React state of Chat) and the service configuration ----
    isLoading,
    messages,          \* sequence of [role, content, voice]
    input,             \* the text field
    chatError,         \* NoChatError or the message of the error banner
    sends,             \* send k: how far handleSendText / handleSendVoice got
    groqApiKey,        \* env.groqApiKey
    \* ---- the chat page's rule-based fallback ----
    userMessage,       \* the text handed to generateFallbackResponse
    riskLevel,         \* analyzeRisk(userMessage), or NoResult
    response,          \* the canned response, or NoResult
    \* ---- the widget (React state of VoiceRecorder) ----
    mounted,           \* the host renders the widget
    isRecording,
    isPaused,
    duration,
    audioUrl,          \* Null or the id of an object URL
    audioBlob,         \* NoBlob or <<blob>>
    error,             \* NoError or a message
    isPlaying,
    \* ---- the widget's refs ----
    mediaRecorderRef,  \* Null or a recorder id
    audioChunksRef,    \* sequence of fragments
    streamRef,         \* Null or a stream id
    timerRef,          \* Null or an interval id
    \* ---- the runtime ----
    supported,         \* isAudioRecordingSupported()
    typeSupport,       \* the types MediaRecorder.isTypeSupported accepts
    calls,             \* getUserMedia call k: "none", "pending", "done"
    tracks,            \* tracks of stream k: "none", "live", "ended"
    recState,          \* recorder k: "none", "recording", "paused", "stopping", "inactive"
    timers,            \* the active interval ids
    urls,              \* object URLs created by the widget
    revoked,           \* object URLs revoked
    \* ---- the host's callbacks ----
    sent,              \* blobs handed to onSendVoice
    cancelled,         \* number of onCancel calls
    threw,             \* name of the last handler that raised an uncaught exception, or ""
    \* ---- per startRecording call ----
    mimeType,          \* the local mimeType of call k ("" before it is computed)
    \* ---- history ----
    delivered          \* the non-empty fragments recorder k has delivered, in order, until its stop event

widgetVars == << mounted, isRecording, isPaused, duration, audioUrl, audioBlob, error, isPlaying >>
refVars == << mediaRecorderRef, audioChunksRef, streamRef, timerRef >>
envVars == << supported, typeSupport >>
chatVars == << userMessage, riskLevel, response >>
pageVars == << isLoading, messages, input, chatError, sends, groqApiKey >>
runtimeVars == << calls, tracks, recState, timers, urls, revoked >>
hostVars == << sent, cancelled, threw >>
callVars == << mimeType, delivered >>
vars == << widgetVars, refVars, envVars, runtimeVars, hostVars, callVars, chatVars, pageVars >>

(* ------------------------------ helpers -------------------------------- *)
RECURSIVE FirstSupported(_, _)
FirstSupported(i, sup) ==
    IF i > Len(types) THEN FallbackMimeType
    ELSE IF types[i] \in sup THEN types[i]
    ELSE FirstSupported(i + 1, sup)

\* getSupportedMimeType that keeps the last supported type of the list
getSupportedMimeTypeLast(sup) ==
    IF \E n \in 1..Len(types) : types[n] \in sup
    THEN types[CHOOSE n \in 1..Len(types) :
                   types[n] \in sup /\ \A m \in (n + 1)..Len(types) : types[m] \notin sup]
    ELSE FallbackMimeType

getSupportedMimeType(sup) == FirstSupported(1, sup)

\* new Blob(chunks, {type}): the fragments concatenated in order
RECURSIVE Concat(_)
Concat(chunks) ==
    IF chunks = << >> THEN << >>
    ELSE Head(chunks) \o Concat(Tail(chunks))

NewBlob(chunks, mime) == [ data |-> Concat(chunks), type |-> mime ]

\* text.includes(term), on sequences: term occurs at some position of text
Matches(text, term, i) ==
    /\ i + Len(term) - 1 <= Len(text)
    /\ \A j \in 1..Len(term) : text[i + j - 1] = term[j]

includes(text, term) == \E i \in 1..(Len(text) + 1) : Matches(text, term, i)

(* --------------------- the chat page's risk classifier ------------------ *)
\* a text is a sequence of characters
UpperCaseLetters == << "A", "B", "C", "D", "E", "F", "G", "H", "I", "J", "K", "L", "M", "N", "O", "P", "Q", "R", "S", "T", "U", "V", "W", "X", "Y", "Z" >>
LowerCaseLetters == << "a", "b", "c", "d", "e", "f", "g", "h", "i", "j", "k", "l", "m", "n", "o", "p", "q", "r", "s", "t", "u", "v", "w", "x", "y", "z" >>

\* String.prototype.toLowerCase, character by character
toLowerCaseChar(c) ==
    IF \E n \in 1..Len(UpperCaseLetters) : UpperCaseLetters[n] = c
    THEN LowerCaseLetters[CHOOSE n \in 1..Len(UpperCaseLetters) : UpperCaseLetters[n] = c]
    ELSE c

toLowerCase(text) == [i \in 1..Len(text) |-> toLowerCaseChar(text[i])]

highRiskWords ==
    << << "h", "i", "t" >>,
       << "h", "i", "t", "s" >>,
       << "h", "i", "t", "t", "i", "n", "g" >>,
       << "p", "u", "n", "c", "h" >>,
       << "k", "i", "c", "k" >>,
       << "c", "h", "o", "k", "e" >>,
       << "s", "t", "r", "a", "n", "g", "l", "e" >>,
       << "w", "e", "a", "p", "o", "n" >>,
       << "k", "n", "i", "f", "e" >>,
       << "g", "u", "n" >>,
       << "k", "i", "l", "l" >>,
       << "m", "u", "r", "d", "e", "r" >>,
       << "r", "a", "p", "e" >>,
       << "f", "o", "r", "c", "e" >> >>

mediumRiskWords ==
    << << "h", "u", "r", "t" >>,
       << "a", "f", "r", "a", "i", "d" >>,
       << "s", "c", "a", "r", "e", "d" >>,
       << "f", "e", "a", "r" >>,
       << "t", "h", "r", "e", "a", "t", "e", "n" >>,
       << "c", "o", "n", "t", "r", "o", "l" >>,
       << "i", "s", "o", "l", "a", "t", "e" >>,
       << "y", "e", "l", "l" >>,
       << "s", "c", "r", "e", "a", "m" >>,
       << "i", "n", "s", "u", "l", "t" >>,
       << "s", "l", "a", "p" >>,
       << "p", "u", "s", "h" >>,
       << "s", "h", "o", "v", "e" >> >>

\* Array.prototype.some(word => lowerText.includes(word))
some(list, lowerText) == \E n \in 1..Len(list) : includes(lowerText, list[n])

\* analyzeRisk that checks the medium-risk words first
analyzeRiskMediumFirst(text) ==
    LET lowerText == toLowerCase(text)
        hasHighRisk == some(highRiskWords, lowerText)
        hasMediumRisk == some(mediumRiskWords, lowerText)
    IN  IF hasMediumRisk THEN "medium"
        ELSE IF hasHighRisk THEN "high"
        ELSE "low"

\* analyzeRisk without its final return
analyzeRiskNoDefault(text) ==
    LET lowerText == toLowerCase(text)
        hasHighRisk == some(highRiskWords, lowerText)
        hasMediumRisk == some(mediumRiskWords, lowerText)
    IN  IF hasHighRisk THEN "high"
        ELSE IF hasMediumRisk THEN "medium"
        ELSE "undefined"

analyzeRisk(text) ==
    LET lowerText == toLowerCase(text)
        hasHighRisk == some(highRiskWords, lowerText)
        hasMediumRisk == some(mediumRiskWords, lowerText)
    IN  IF hasHighRisk THEN "high"
        ELSE IF hasMediumRisk THEN "medium"
        ELSE "low"

HighRiskResponse ==
    "I'm very concerned about your safety. What you're describing sounds serious and dangerous. Please know that you don't deserve to be treated this way, and help is available. Would you like me to share emergency contact numbers for your country? If you're in immediate danger, please call emergency services or use the helpline numbers at the bottom of this page."
MediumRiskResponse ==
    "Thank you for sharing that with me. What you're experiencing sounds really difficult and you deserve to feel safe and respected. These behaviors can be warning signs of abuse. Would you be open to taking our safety assessment? It might help you understand your situation better. Remember, you have options and support is available."
HelpResponse ==
    "I'm here to support you. Here are some steps you can take: 1) Take our safety assessment to better understand your situation, 2) Create a safety plan, 3) Reach out to local helplines (you'll find numbers at the bottom of this page), 4) Talk to someone you trust. Would you like me to guide you through any of these?"
LeavingResponse ==
    "Leaving an abusive situation is a brave step, and it's important to plan carefully for your safety. Our safety plan tool can help you prepare. Remember: leaving can be the most dangerous time, so having a plan is crucial. Would you like help creating a safety plan?"
SelfBlameResponse ==
    "Please hear this: abuse is NEVER your fault. No matter what you did or didn't do, no one deserves to be hurt, controlled, or frightened. The person choosing to be abusive is responsible for their behavior, not you. You deserve to be treated with respect and kindness."
ChildrenResponse ==
    "I understand you're concerned about children in this situation. Children who witness abuse are affected by it, even if they're not directly harmed. Their safety and wellbeing matter too. If you're worried about a child's safety, please reach out to child protection services or the helplines at the bottom of this page."
DefaultResponse ==
    "Thank you for sharing that with me. Your feelings are valid, and it takes courage to talk about these things. I'm here to listen without judgment. Would you like to tell me more, or would you prefer to explore our safety assessment or resources?"

\* generateFallbackResponse that looks for children before leaving
generateFallbackResponseChildrenFirst(message) ==
    LET risk == analyzeRisk(message)
        lowerMessage == toLowerCase(message)
    IN  IF risk = "high" THEN HighRiskResponse
        ELSE IF risk = "medium" THEN MediumRiskResponse
        ELSE IF \/ includes(lowerMessage, << "h", "e", "l", "p" >>)
                \/ includes(lowerMessage, << "w", "h", "a", "t", " ", "d", "o", " ", "i", " ", "d", "o" >>)
                \/ includes(lowerMessage, << "w", "h", "a", "t", " ", "s", "h", "o", "u", "l", "d", " ", "i" >>)
        THEN HelpResponse
        ELSE IF \/ includes(lowerMessage, << "c", "h", "i", "l", "d", "r", "e", "n" >>)
                \/ includes(lowerMessage, << "k", "i", "d", "s" >>)
                \/ includes(lowerMessage, << "c", "h", "i", "l", "d" >>)
        THEN ChildrenResponse
        ELSE IF \/ includes(lowerMessage, << "l", "e", "a", "v", "e" >>)
                \/ includes(lowerMessage, << "l", "e", "a", "v", "i", "n", "g" >>)
        THEN LeavingResponse
        ELSE IF \/ includes(lowerMessage, << "f", "a", "u", "l", "t" >>)
                \/ includes(lowerMessage, << "b", "l", "a", "m", "e" >>)
                \/ includes(lowerMessage, << "m", "y", " ", "f", "a", "u", "l", "t" >>)
        THEN SelfBlameResponse
        ELSE DefaultResponse

generateFallbackResponse(message) ==
    LET risk == analyzeRisk(message)
        lowerMessage == toLowerCase(message)
    IN  IF risk = "high" THEN HighRiskResponse
        ELSE IF risk = "medium" THEN MediumRiskResponse
        ELSE IF \/ includes(lowerMessage, << "h", "e", "l", "p" >>)
                \/ includes(lowerMessage, << "w", "h", "a", "t", " ", "d", "o", " ", "i", " ", "d", "o" >>)
                \/ includes(lowerMessage, << "w", "h", "a", "t", " ", "s", "h", "o", "u", "l", "d", " ", "i" >>)
        THEN HelpResponse
        ELSE IF \/ includes(lowerMessage, << "l", "e", "a", "v", "e" >>)
                \/ includes(lowerMessage, << "l", "e", "a", "v", "i", "n", "g" >>)
        THEN LeavingResponse
        ELSE IF \/ includes(lowerMessage, << "f", "a", "u", "l", "t" >>)
                \/ includes(lowerMessage, << "b", "l", "a", "m", "e" >>)
                \/ includes(lowerMessage, << "m", "y", " ", "f", "a", "u", "l", "t" >>)
        THEN SelfBlameResponse
        ELSE IF \/ includes(lowerMessage, << "c", "h", "i", "l", "d", "r", "e", "n" >>)
                \/ includes(lowerMessage, << "k", "i", "d", "s" >>)
                \/ includes(lowerMessage, << "c", "h", "i", "l", "d" >>)
        THEN ChildrenResponse
        ELSE DefaultResponse

\* no classification or response computed yet
NoResult == "none"

\* the pieces the texts are made of: risk terms in both cases, risk terms
\* inside longer words, the terms of the other rules and neutral words
Words ==
    { << "h", "i", "t" >>,
      << "H", "I", "T" >>,
      << "w", "h", "i", "t", "e" >>,
      << "s", "c", "a", "r", "e", "d" >>,
      << "F", "e", "a", "r" >>,
      << "h", "e", "l", "p" >>,
      << "l", "e", "a", "v", "e" >>,
      << "m", "y", " ", "f", "a", "u", "l", "t" >>,
      << "c", "h", "i", "l", "d", "r", "e", "n" >>,
      << "k", "i", "d", "s" >>,
      << "g", "o", "o", "d" >>,
      << "W", "h", "a", "t", " ", "s", "h", "o", "u", "l", "d", " ", "I" >> }

\* the texts of the specification's examples
ExampleHitAndScared == << "h", "e", " ", "h", "i", "t", " ", "m", "e", " ", "a", "n", "d", " ", "a", "l", "s", "o", " ", "s", "c", "a", "r", "e", "d", " ", "m", "e" >>
ExampleIsolated == << "H", "e", " ", "i", "s", "o", "l", "a", "t", "e", "d", " ", "m", "e", " ", "a", "n", "d", " ", "c", "o", "n", "t", "r", "o", "l", "s", " ", "m", "y", " ", "m", "o", "n", "e", "y" >>
ExampleGoodDay == << "I", " ", "h", "a", "d", " ", "a", " ", "g", "o", "o", "d", " ", "d", "a", "y" >>
ExampleLeavingChildren == << "I", " ", "a", "m", " ", "l", "e", "a", "v", "i", "n", "g", " ", "w", "i", "t", "h", " ", "m", "y", " ", "c", "h", "i", "l", "d", "r", "e", "n" >>
ExampleNeedHelp == << "I", " ", "n", "e", "e", "d", " ", "h", "e", "l", "p" >>
Examples == { ExampleHitAndScared, ExampleIsolated, ExampleGoodDay,
              ExampleLeavingChildren, ExampleNeedHelp }

\* the texts of at most n pieces separated by a blank
RECURSIVE Phrases(_)
Phrases(n) ==
    IF n = 0 THEN { << >> }
    ELSE LET shorter == Phrases(n - 1)
         IN  shorter \cup { IF p = << >> THEN w ELSE p \o << " " >> \o w :
                             p \in shorter, w \in Words }

Texts == Examples \cup Phrases(MaxWords)

(* ------------------- the chat page and the Groq service ----------------- *)
SendIds == 1..MaxSends

\* env.groqApiKey: not set, set in the expected format, set in another format
NoApiKey == << >>
GroqApiKeys == { NoApiKey, << "g", "s", "k", "_", "1" >>, << "k", "e", "y" >> }

startsWith(text, prefix) ==
    /\ Len(prefix) <= Len(text)
    /\ SubSeq(text, 1, Len(prefix)) = prefix

\* String.prototype.trim for blanks
trim(text) ==
    LET idx == { i \in 1..Len(text) : text[i] # " " }
    IN  IF idx = {} THEN << >>
        ELSE SubSeq(text, CHOOSE i \in idx : \A j \in idx : i <= j,
                          CHOOSE i \in idx : \A j \in idx : i >= j)

\* the texts the user types and the texts a transcription returns
ChatInputs == { << " " >>, << " ", "h", "i", "t", " " >>, ExampleNeedHelp, ExampleGoodDay }
Transcripts == { << >>, ExampleHitAndScared, ExampleGoodDay }

\* the artifact the recorder hands over
VoiceBlob == NewBlob(<< <<1>> >>, FallbackMimeType)

\* a thrown value: an Error with its message (a sequence of words), or something else
Thrown(msg) == [ isError |-> TRUE, message |-> msg ]
NotAnError == [ isError |-> FALSE, message |-> << >> ]

InvalidKeyMessage == << "Invalid", "Groq", "API", "key", "format.", "Please", "check", "your", ".env", "file." >>
NotConfiguredMessage == << "Groq", "API", "is", "not", "configured.", "Please", "add", "VITE_GROQ_API_KEY", "to", "your", ".env", "file." >>
NoResponseMessage == << "No", "response", "from", "AI" >>

\* what a request to the Groq API can be rejected with
SdkFailures ==
    { Thrown(<< "Connection", "error." >>),
      Thrown(<< "401", "Invalid", "API", "key" >>),
      Thrown(<< "413", "file", "size", "limit", "exceeded" >>),
      NotAnError }

\* the outcomes of client.chat.completions.create and of
\* client.audio.transcriptions.create
AiReply == "AI reply"
ChatOutcomes ==
    { [ok |-> TRUE, content |-> AiReply], [ok |-> TRUE, content |-> ""] }
      \cup { [ok |-> FALSE, thrown |-> e] : e \in SdkFailures }
TranscribeOutcomes ==
    { [ok |-> TRUE, text |-> t] : t \in Transcripts }
      \cup { [ok |-> FALSE, thrown |-> e] : e \in SdkFailures }

NoChatError == << >>
SorryMessage == << "Sorry,", "I", "encountered", "an", "error.", "Please", "try", "again." >>

\* the first message of the list
Greeting ==
    [ role |-> "assistant", voice |-> FALSE,
      content |-> "Hello, I'm here to listen and support you. This is a safe, confidential space. You can share whatever you're comfortable with. How are you feeling today?" ]

\* a send that has not begun
NoSend == [ stage |-> "none", kind |-> "none", text |-> << >>, replies |-> 0 ]

\* requestMicrophonePermission without its NotFoundError branch
requestMicrophonePermissionMessageNoNotFound(name) ==
    IF name = "NotAllowedError" THEN PermissionDeniedMessage
    ELSE AccessFailedMessage

\* requestMicrophonePermission: the message of the Error it throws
requestMicrophonePermissionMessage(name) ==
    IF name = "NotAllowedError" THEN PermissionDeniedMessage
    ELSE IF name = "NotFoundError" THEN NoMicrophoneMessage
    ELSE AccessFailedMessage

\* window.setInterval returns an id no active interval has
NewTimer(tm) == CHOOSE t \in TimerIds : t \notin tm

\* which of the three views the component renders
View ==
    IF ~isRecording /\ audioUrl = Null THEN "idle"
    ELSE IF isRecording THEN "recording"
    ELSE "ready"

\* the disabled prop: the chat page passes its loading flag
disabled == isLoading

\* the values the effect cleanup closes over: those of the first render
isRecordingAtMount == FALSE
audioUrlAtMount == Null

(* ------------------------------- Init ---------------------------------- *)
InitWidgetState ==
    /\ isRecording = FALSE
    /\ isPaused = FALSE
    /\ duration = 0
    /\ audioUrl = Null
    /\ audioBlob = NoBlob
    /\ error = NoError
    /\ isPlaying = FALSE
    /\ mediaRecorderRef = Null
    /\ audioChunksRef = << >>
    /\ streamRef = Null
    /\ timerRef = Null
    /\ supported \in BOOLEAN
    /\ typeSupport \in TypeSupportChoices
    /\ calls = [k \in CallIds |-> "none"]
    /\ tracks = [k \in CallIds |-> "none"]
    /\ recState = [k \in CallIds |-> "none"]
    /\ timers = {}
    /\ urls = {}
    /\ revoked = {}
    /\ sent = << >>
    /\ cancelled = 0
    /\ threw = ""
    /\ mimeType = [k \in CallIds |-> ""]
    /\ delivered = [k \in CallIds |-> << >>]

\* the host has just shown the widget
InitWidget ==
    /\ mounted = TRUE
    /\ InitWidgetState

\* the chat page after its first render
InitPage ==
    /\ isLoading = FALSE
    /\ messages = << Greeting >>
    /\ input = << >>
    /\ chatError = NoChatError
    /\ sends = [k \in SendIds |-> NoSend]

\* the widget is shown and no text has been handed to the fallback
Init ==
    /\ InitWidget
    /\ userMessage = << >>
    /\ riskLevel = NoResult
    /\ response = NoResult
    /\ InitPage
    /\ groqApiKey = NoApiKey


(* ------------------- operations shared by the handlers ------------------ *)
Active(r) == recState[r] \in {"recording", "paused"}

\* stopTimer applied to a set of intervals and a timerRef value
stopTimer(tm, tref) ==
    IF tref # Null THEN [ timers |-> tm \ {tref}, timerRef |-> Null ]
    ELSE [ timers |-> tm, timerRef |-> tref ]

\* startTimer: a new interval, whose id overwrites timerRef
startTimer(tm) ==
    [ timers |-> tm \cup {NewTimer(tm)}, timerRef |-> NewTimer(tm) ]

\* stopRecording as seen by a closure in which isRecording has the value rec.
\* MediaRecorder.stop() on a recorder that is already inactive raises
\* InvalidStateError in some runtimes and does nothing in others
\* (stopThrows); the handler ends at the exception.
stopRecording(rec, stopThrows) ==
    IF mediaRecorderRef # Null /\ rec
    THEN IF ~Active(mediaRecorderRef) /\ stopThrows
         THEN [ thrown |-> TRUE, recState |-> recState,
                isRecording |-> isRecording, isPaused |-> isPaused,
                timers |-> timers, timerRef |-> timerRef ]
         ELSE [ thrown |-> FALSE,
                recState |-> IF Active(mediaRecorderRef)
                             THEN [recState EXCEPT ![mediaRecorderRef] = "stopping"]
                             ELSE recState,
                isRecording |-> FALSE, isPaused |-> FALSE,
                timers |-> stopTimer(timers, timerRef).timers,
                timerRef |-> stopTimer(timers, timerRef).timerRef ]
    ELSE [ thrown |-> FALSE, recState |-> recState,
           isRecording |-> isRecording, isPaused |-> isPaused,
           timers |-> timers, timerRef |-> timerRef ]

\* The cleanup of the mount effect, run when the host removes the widget.
\* It was created by the first render: its stopRecording sees
\* isRecording = false and its audioUrl is null.  s is the state the
\* calling handler (if any) has produced so far, rv the URLs revoked so far.
Cleanup(s, rv) ==
    LET c == IF mediaRecorderRef # Null /\ isRecordingAtMount
             THEN [ s EXCEPT !.isRecording = FALSE, !.isPaused = FALSE,
                             !.recState = IF Active(mediaRecorderRef)
                                          THEN [s.recState EXCEPT ![mediaRecorderRef] = "stopping"]
                                          ELSE s.recState,
                             !.timers = stopTimer(s.timers, s.timerRef).timers,
                             !.timerRef = stopTimer(s.timers, s.timerRef).timerRef ]
             ELSE s
    IN  /\ mounted' = FALSE
        /\ isRecording' = c.isRecording
        /\ isPaused' = c.isPaused
        /\ recState' = c.recState
        /\ revoked' = IF audioUrlAtMount # Null THEN rv \cup {audioUrlAtMount} ELSE rv
        /\ tracks' = IF streamRef # Null THEN [tracks EXCEPT ![streamRef] = "ended"] ELSE tracks
        /\ timers' = IF c.timerRef # Null THEN c.timers \ {c.timerRef} ELSE c.timers
        /\ timerRef' = c.timerRef

Unchanged == [ thrown |-> FALSE, recState |-> recState,
               isRecording |-> isRecording, isPaused |-> isPaused,
               timers |-> timers, timerRef |-> timerRef ]

(* ------------------------------ actions -------------------------------- *)
\* startRecording without its capability check
StartRecordingNoCapabilityCheck ==
    /\ mounted /\ View = "idle" /\ ~disabled
    /\ \E k \in CallIds :
         /\ calls[k] = "none"
         /\ \A j \in CallIds : j < k => calls[j] # "none"
         /\ calls' = [calls EXCEPT ![k] = "pending"]
    /\ error' = NoError
    /\ UNCHANGED << mounted, isRecording, isPaused, duration, audioUrl, audioBlob, isPlaying >>
    /\ UNCHANGED << refVars, envVars, chatVars, pageVars, callVars, tracks, recState, timers, urls, revoked, hostVars >>

\* click on "Start Recording": startRecording up to its await
StartRecording ==
    /\ mounted /\ View = "idle" /\ ~disabled
    /\ IF ~supported
       THEN /\ error' = UnsupportedMessage
            /\ UNCHANGED calls
       ELSE /\ \E k \in CallIds :
                 /\ calls[k] = "none"
                 /\ \A j \in CallIds : j < k => calls[j] # "none"
                 /\ calls' = [calls EXCEPT ![k] = "pending"]
            /\ error' = NoError
    /\ UNCHANGED << mounted, isRecording, isPaused, duration, audioUrl, audioBlob, isPlaying >>
    /\ UNCHANGED << refVars, envVars, chatVars, pageVars, callVars, tracks, recState, timers, urls, revoked, hostVars >>

\* getUserMedia call k is granted: startRecording after its await
AcquireResolve(k) ==
    /\ calls[k] = "pending"
    /\ calls' = [calls EXCEPT ![k] = "done"]
    /\ streamRef' = k
    /\ tracks' = [tracks EXCEPT ![k] = "live"]
    /\ mimeType' = [mimeType EXCEPT ![k] = getSupportedMimeType(typeSupport)]
    /\ IF mimeType'[k] \notin typeSupport
       THEN \* new MediaRecorder(stream, {mimeType}) raises NotSupportedError
            /\ error' = IF mounted THEN NotSupportedErrorMessage ELSE error
            /\ UNCHANGED << mediaRecorderRef, audioChunksRef, timerRef, recState, timers, isRecording >>
       ELSE /\ mediaRecorderRef' = k
            /\ audioChunksRef' = << >>
            /\ recState' = [recState EXCEPT ![k] = "recording"]
            /\ isRecording' = IF mounted THEN TRUE ELSE isRecording
            /\ timers' = startTimer(timers).timers
            /\ timerRef' = startTimer(timers).timerRef
            /\ UNCHANGED error
    /\ UNCHANGED << mounted, isPaused, duration, audioUrl, audioBlob, isPlaying >>
    /\ UNCHANGED << envVars, chatVars, pageVars, delivered, urls, revoked, hostVars >>

\* getUserMedia call k is rejected: the catch of startRecording
AcquireReject(k, name) ==
    /\ calls[k] = "pending"
    /\ calls' = [calls EXCEPT ![k] = "done"]
    /\ error' = IF mounted THEN requestMicrophonePermissionMessage(name) ELSE error
    /\ UNCHANGED << mounted, isRecording, isPaused, duration, audioUrl, audioBlob, isPlaying >>
    /\ UNCHANGED << refVars, envVars, chatVars, pageVars, callVars, tracks, recState, timers, urls, revoked, hostVars >>

\* an interval callback that also stops the recording at the advisory threshold
TickAutoStop(t, cap) ==
    /\ t \in timers
    /\ duration < cap
    /\ duration' = IF mounted THEN duration + 1 ELSE duration
    /\ isRecording' = IF mounted /\ duration + 1 >= AdvisoryThreshold THEN FALSE ELSE isRecording
    /\ UNCHANGED << mounted, isPaused, audioUrl, audioBlob, error, isPlaying >>
    /\ UNCHANGED << refVars, envVars, chatVars, pageVars, callVars, runtimeVars, hostVars >>

\* the interval t fires: setDuration(prev => prev + 1); cap bounds the counter
TickUpTo(t, cap) ==
    /\ t \in timers
    /\ duration < cap
    /\ duration' = IF mounted THEN duration + 1 ELSE duration
    /\ UNCHANGED << mounted, isRecording, isPaused, audioUrl, audioBlob, error, isPlaying >>
    /\ UNCHANGED << refVars, envVars, chatVars, pageVars, callVars, runtimeVars, hostVars >>

Tick(t) == TickUpTo(t, MaxDuration)

\* click on "Stop"
StopRecording ==
    /\ mounted /\ View = "recording"
    /\ \E stopThrows \in BOOLEAN :
         LET s == stopRecording(isRecording, stopThrows) IN
           /\ threw' = IF s.thrown THEN "stopRecording" ELSE threw
           /\ recState' = s.recState
           /\ isRecording' = s.isRecording
           /\ isPaused' = s.isPaused
           /\ timers' = s.timers
           /\ timerRef' = s.timerRef
    /\ UNCHANGED << mounted, duration, audioUrl, audioBlob, error, isPlaying >>
    /\ UNCHANGED << mediaRecorderRef, audioChunksRef, streamRef >>
    /\ UNCHANGED << envVars, chatVars, pageVars, callVars, calls, tracks, urls, revoked, sent, cancelled >>

\* click on "Pause" / "Resume"
\* pauseRecording that empties the chunk list when it resumes
pauseRecordingClearsChunks ==
    /\ IF mediaRecorderRef # Null /\ isRecording
       THEN IF ~Active(mediaRecorderRef)
            THEN /\ threw' = "pauseRecording"
                 /\ UNCHANGED << isPaused, recState, timers, timerRef, audioChunksRef >>
            ELSE IF isPaused
            THEN /\ recState' = [recState EXCEPT ![mediaRecorderRef] = "recording"]
                 /\ timers' = startTimer(timers).timers
                 /\ timerRef' = startTimer(timers).timerRef
                 /\ isPaused' = FALSE
                 /\ audioChunksRef' = << >>
                 /\ UNCHANGED threw
            ELSE /\ recState' = [recState EXCEPT ![mediaRecorderRef] = "paused"]
                 /\ timers' = stopTimer(timers, timerRef).timers
                 /\ timerRef' = stopTimer(timers, timerRef).timerRef
                 /\ isPaused' = TRUE
                 /\ UNCHANGED << threw, audioChunksRef >>
       ELSE UNCHANGED << isPaused, recState, timers, timerRef, threw, audioChunksRef >>
    /\ UNCHANGED << mounted, isRecording, duration, audioUrl, audioBlob, error, isPlaying >>
    /\ UNCHANGED << mediaRecorderRef, streamRef >>
    /\ UNCHANGED << envVars, chatVars, pageVars, callVars, calls, tracks, urls, revoked, sent, cancelled >>

\* the handler pauseRecording
pauseRecording ==
    /\ IF mediaRecorderRef # Null /\ isRecording
       THEN IF ~Active(mediaRecorderRef)
            THEN \* pause() and resume() raise InvalidStateError on an inactive recorder
                 /\ threw' = "pauseRecording"
                 /\ UNCHANGED << isPaused, recState, timers, timerRef >>
            ELSE IF isPaused
            THEN /\ recState' = [recState EXCEPT ![mediaRecorderRef] = "recording"]
                 /\ timers' = startTimer(timers).timers
                 /\ timerRef' = startTimer(timers).timerRef
                 /\ isPaused' = FALSE
                 /\ UNCHANGED threw
            ELSE /\ recState' = [recState EXCEPT ![mediaRecorderRef] = "paused"]
                 /\ timers' = stopTimer(timers, timerRef).timers
                 /\ timerRef' = stopTimer(timers, timerRef).timerRef
                 /\ isPaused' = TRUE
                 /\ UNCHANGED threw
       ELSE UNCHANGED << isPaused, recState, timers, timerRef, threw >>
    /\ UNCHANGED << mounted, isRecording, duration, audioUrl, audioBlob, error, isPlaying >>
    /\ UNCHANGED << mediaRecorderRef, audioChunksRef, streamRef >>
    /\ UNCHANGED << envVars, chatVars, pageVars, callVars, calls, tracks, urls, revoked, sent, cancelled >>

PauseRecording ==
    /\ mounted /\ View = "recording"
    /\ Cardinality(timers) < Cardinality(TimerIds)
    /\ pauseRecording

\* recorder r delivers a fragment: ondataavailable
DataAvailable(r, frag) ==
    /\ recState[r] \in {"recording", "stopping"}
    /\ Len(audioChunksRef) < MaxChunks
    /\ audioChunksRef' = IF Len(frag) > 0 THEN Append(audioChunksRef, frag) ELSE audioChunksRef
    /\ delivered' = IF Len(frag) > 0 THEN [delivered EXCEPT ![r] = Append(@, frag)] ELSE delivered
    /\ UNCHANGED << widgetVars, mediaRecorderRef, streamRef, timerRef >>
    /\ UNCHANGED << envVars, chatVars, pageVars, mimeType, runtimeVars, hostVars >>

\* every track of recorder r's stream has ended: the runtime stops the recorder
TracksEnded(r) ==
    /\ Active(r)
    /\ tracks[r] = "ended"
    /\ recState' = [recState EXCEPT ![r] = "stopping"]
    /\ UNCHANGED << widgetVars, refVars, envVars, chatVars, pageVars, callVars, calls, tracks, timers, urls, revoked, hostVars >>

\* recorder r has ceased capture: onstop
OnStop(r) ==
    /\ recState[r] = "stopping"
    /\ recState' = [recState EXCEPT ![r] = "inactive"]
    /\ urls' = urls \cup {r}
    /\ audioBlob' = IF mounted
                    THEN << NewBlob(audioChunksRef, mimeType[r]) >>
                    ELSE audioBlob
    /\ audioUrl' = IF mounted THEN r ELSE audioUrl
    /\ tracks' = IF streamRef # Null THEN [tracks EXCEPT ![streamRef] = "ended"] ELSE tracks
    /\ UNCHANGED << mounted, isRecording, isPaused, duration, error, isPlaying >>
    /\ delivered' = [delivered EXCEPT ![r] = << >>]
    /\ UNCHANGED << refVars, envVars, chatVars, pageVars, mimeType, calls, timers, revoked, hostVars >>

\* click on "Play Preview" / "Pause Preview"
\* the audio element of the ready view is mounted: audioRef.current is set
audioRefCurrent == mounted /\ View = "ready"

\* the handler playAudio
playAudio ==
    /\ isPlaying' = IF audioUrl # Null /\ audioRefCurrent THEN ~isPlaying ELSE isPlaying
    /\ UNCHANGED << mounted, isRecording, isPaused, duration, audioUrl, audioBlob, error >>
    /\ UNCHANGED << refVars, envVars, chatVars, pageVars, callVars, runtimeVars, hostVars >>

PlayAudio ==
    /\ mounted /\ View = "ready"
    /\ playAudio

\* the preview reaches its end: onEnded of the audio element
AudioEnded ==
    /\ mounted /\ View = "ready"
    /\ isPlaying
    /\ isPlaying' = FALSE
    /\ UNCHANGED << mounted, isRecording, isPaused, duration, audioUrl, audioBlob, error >>
    /\ UNCHANGED << refVars, envVars, chatVars, pageVars, callVars, runtimeVars, hostVars >>

\* click on "Send Voice Message": handleSend; the host's onSendVoice removes
\* the widget (setShowVoiceRecorder(false)), which runs the effect cleanup
HandleSend ==
    /\ mounted /\ View = "ready" /\ ~disabled
    /\ IF audioBlob # NoBlob
       THEN /\ sent' = Append(sent, audioBlob[1])
            /\ Cleanup(Unchanged, IF audioUrl # Null THEN revoked \cup {audioUrl} ELSE revoked)
       ELSE UNCHANGED << sent, mounted, isRecording, isPaused, recState, revoked, tracks, timers, timerRef >>
    /\ UNCHANGED << duration, audioUrl, audioBlob, error, isPlaying >>
    /\ UNCHANGED << mediaRecorderRef, audioChunksRef, streamRef >>
    /\ UNCHANGED << envVars, chatVars, pageVars, callVars, calls, urls, cancelled, threw >>

\* click on the X button: handleCancel; the host's onCancel removes the
\* widget (setShowVoiceRecorder(false)), which runs the effect cleanup
HandleCancel ==
    /\ mounted
    /\ \E stopThrows \in BOOLEAN :
         LET s == stopRecording(isRecording, stopThrows) IN
           IF s.thrown
           THEN /\ threw' = "handleCancel"
                /\ UNCHANGED << mounted, isRecording, isPaused, recState, revoked,
                                tracks, timers, timerRef, cancelled >>
           ELSE /\ cancelled' = cancelled + 1
                /\ Cleanup(s, IF audioUrl # Null THEN revoked \cup {audioUrl} ELSE revoked)
                /\ UNCHANGED threw
    /\ UNCHANGED << duration, audioUrl, audioBlob, error, isPlaying >>
    /\ UNCHANGED << mediaRecorderRef, audioChunksRef, streamRef >>
    /\ UNCHANGED << envVars, chatVars, pageVars, callVars, calls, urls, sent >>

\* the host removes the widget for another reason (the page is left)
Unmount ==
    /\ mounted
    /\ Cleanup(Unchanged, revoked)
    /\ UNCHANGED << duration, audioUrl, audioBlob, error, isPlaying >>
    /\ UNCHANGED << mediaRecorderRef, audioChunksRef, streamRef >>
    /\ UNCHANGED << envVars, chatVars, pageVars, callVars, calls, urls, hostVars >>

Next ==
    \/ StartRecording
    \/ \E k \in CallIds : AcquireResolve(k)
    \/ \E k \in CallIds, name \in RejectNames : AcquireReject(k, name)
    \/ \E t \in TimerIds : Tick(t)
    \/ StopRecording
    \/ PauseRecording
    \/ \E r \in CallIds, frag \in Fragments : DataAvailable(r, frag)
    \/ \E r \in CallIds : TracksEnded(r)
    \/ \E r \in CallIds : OnStop(r)
    \/ PlayAudio
    \/ AudioEnded
    \/ HandleSend
    \/ HandleCancel
    \/ Unmount

Spec == Init /\ [][Next]_vars

TypeOK ==
    /\ mounted \in BOOLEAN /\ isRecording \in BOOLEAN /\ isPaused \in BOOLEAN
    /\ duration \in 0..MaxLongDuration
    /\ audioUrl \in {Null} \cup CallIds
    /\ Len(audioBlob) \in {0, 1}
    /\ isPlaying \in BOOLEAN
    /\ mediaRecorderRef \in {Null} \cup CallIds
    /\ streamRef \in {Null} \cup CallIds
    /\ timerRef \in {Null} \cup TimerIds
    /\ timers \subseteq TimerIds
    /\ urls \subseteq CallIds /\ revoked \subseteq urls
    /\ Len(audioChunksRef) <= MaxChunks
    /\ \A k \in CallIds : mimeType[k] \in {"", getSupportedMimeType(typeSupport)}

(* ------------------ a single long recording (5 minutes) ----------------- *)
\* the advisory "Maximum recording length (5 minutes) reached" is rendered
Advisory == mounted /\ View = "recording" /\ duration >= AdvisoryThreshold

\* the first click on "Start Recording"
FirstStart == StartRecording /\ \A k \in CallIds : calls[k] = "none"

LongTick(t) == TickUpTo(t, MaxLongDuration)

\* one start() and everything that can follow it, with the elapsed-seconds
\* counter running past the advisory threshold
LongNext ==
    \/ FirstStart
    \/ \E k \in CallIds : AcquireResolve(k)
    \/ \E k \in CallIds, name \in RejectNames : AcquireReject(k, name)
    \/ \E t \in TimerIds : LongTick(t)
    \/ StopRecording
    \/ PauseRecording
    \/ \E r \in CallIds : OnStop(r)
    \/ HandleCancel
    \/ Unmount

SpecLong == Init /\ [][LongNext]_vars

(* -------------------- the rule-based fallback response ------------------ *)
\* a text to answer from Texts, not yet classified
InitClassifier ==
    /\ InitWidget
    /\ userMessage \in Texts
    /\ riskLevel = NoResult
    /\ response = NoResult
    /\ InitPage
    /\ groqApiKey = NoApiKey

\* getAIResponse(userMessage) when it falls back to the rule-based responses
FallbackResponse ==
    /\ riskLevel = NoResult
    /\ riskLevel' = analyzeRisk(userMessage)
    /\ response' = generateFallbackResponse(userMessage)
    /\ UNCHANGED userMessage
    /\ UNCHANGED << widgetVars, refVars, envVars, runtimeVars, hostVars, callVars, pageVars >>

ClassifierNext == FallbackResponse

SpecClassifier == InitClassifier /\ [][ClassifierNext]_vars

(* ----------------------------- the chat page ---------------------------- *)
isGroqConfigured == Len(groqApiKey) > 0
isGroqAvailable == isGroqConfigured
validateGroqApiKey == groqApiKey # NoApiKey /\ startsWith(groqApiKey, << "g", "s", "k", "_" >>)

\* getGroqClient: the error it throws, or NotAnError when it returns the client
getGroqClientThrows ==
    IF isGroqConfigured /\ ~validateGroqApiKey THEN Thrown(InvalidKeyMessage)
    ELSE IF ~isGroqConfigured THEN Thrown(NotConfiguredMessage)
    ELSE NotAnError

hasGroqClient == getGroqClientThrows = NotAnError

\* the catch block of transcribeAudio: the message of the Error it throws
transcribeAudioMessage(e) ==
    IF e.isError
    THEN IF includes(e.message, << "API", "key" >>)
         THEN << "Transcription", "service", "not", "configured.", "Please", "contact", "support." >>
         ELSE IF includes(e.message, << "file", "size" >>)
         THEN << "Audio", "file", "is", "too", "large.", "Please", "record", "a", "shorter", "message." >>
         ELSE << "Transcription", "error:" >> \o e.message
    ELSE << "Failed", "to", "transcribe", "audio.", "Please", "try", "again." >>

\* the catch block of getChatResponse: the message of the Error it throws
getChatResponseMessage(e) ==
    IF e.isError
    THEN IF includes(e.message, << "API", "key" >>)
         THEN << "AI", "service", "not", "configured.", "Please", "contact", "support." >>
         ELSE << "AI", "service", "error:" >> \o e.message
    ELSE << "Failed", "to", "get", "AI", "response.", "Please", "try", "again." >>

\* getChatResponse given the outcome of the request: what it returns or throws
getChatResponse(outcome) ==
    IF outcome.ok
    THEN IF outcome.content = ""
         THEN [ok |-> FALSE, thrown |-> Thrown(getChatResponseMessage(Thrown(NoResponseMessage)))]
         ELSE [ok |-> TRUE, content |-> outcome.content]
    ELSE [ok |-> FALSE, thrown |-> Thrown(getChatResponseMessage(outcome.thrown))]

\* getAIResponse that lets the error of getChatResponse through
getAIResponseRethrows(text, outcome) ==
    IF ~isGroqAvailable THEN [ok |-> TRUE, content |-> generateFallbackResponse(text)]
    ELSE LET r == getChatResponse(outcome)
         IN  IF r.ok THEN [ok |-> TRUE, content |-> r.content]
             ELSE [ok |-> FALSE, thrown |-> r.thrown]

\* getAIResponse, given the outcome of the request if one is made: without a
\* configured service, and in its catch block, it falls back to the rules
getAIResponse(text, outcome) ==
    IF ~isGroqAvailable THEN [ok |-> TRUE, content |-> generateFallbackResponse(text)]
    ELSE LET r == getChatResponse(outcome)
         IN  IF r.ok THEN [ok |-> TRUE, content |-> r.content]
             ELSE [ok |-> TRUE, content |-> generateFallbackResponse(text)]

\* the sends in progress and the next one
NextSend == CHOOSE k \in SendIds : sends[k].stage = "none" /\ \A j \in SendIds : j < k => sends[j].stage # "none"
CanSend == \E k \in SendIds : sends[k].stage = "none"
UserMessage(text, isVoice) == [ role |-> "user", voice |-> isVoice, content |-> text ]
AssistantMessage(text) == [ role |-> "assistant", voice |-> FALSE, content |-> text ]

\* the chat page after its first render: the recorder is not shown
InitChat ==
    /\ mounted = FALSE
    /\ InitWidgetState
    /\ userMessage = << >>
    /\ riskLevel = NoResult
    /\ response = NoResult
    /\ InitPage
    /\ groqApiKey \in GroqApiKeys

\* the user types into the text field (disabled while loading)
SetInput(text) ==
    /\ ~mounted /\ ~isLoading
    /\ input # text
    /\ input' = text
    /\ UNCHANGED << isLoading, messages, chatError, sends, groqApiKey >>
    /\ UNCHANGED << widgetVars, refVars, envVars, runtimeVars, hostVars, callVars, chatVars >>

\* the mic button without its disabled attribute
OpenRecorderWhileLoading ==
    /\ ~mounted
    /\ mounted' = TRUE
    /\ UNCHANGED << isRecording, isPaused, duration, audioUrl, audioBlob, error, isPlaying >>
    /\ UNCHANGED << refVars, envVars, runtimeVars, hostVars, callVars, chatVars, pageVars >>

\* click on the mic button (disabled while loading): setShowVoiceRecorder(true)
OpenRecorder ==
    /\ ~mounted /\ ~isLoading
    /\ mounted' = TRUE
    /\ UNCHANGED << isRecording, isPaused, duration, audioUrl, audioBlob, error, isPlaying >>
    /\ UNCHANGED << refVars, envVars, runtimeVars, hostVars, callVars, chatVars, pageVars >>

\* the recorder calls onCancel: setShowVoiceRecorder(false)
CloseRecorder ==
    /\ mounted
    /\ mounted' = FALSE
    /\ UNCHANGED << isRecording, isPaused, duration, audioUrl, audioBlob, error, isPlaying >>
    /\ UNCHANGED << refVars, envVars, runtimeVars, hostVars, callVars, chatVars, pageVars >>

\* Enter in the text field or click on Send (both disabled while loading):
\* handleSendText up to the request of getChatResponse; without a usable
\* client getAIResponse returns the fallback before any request is made
HandleSendText ==
    /\ ~mounted /\ ~isLoading
    /\ CanSend
    /\ LET text == trim(input)
           k == NextSend
           r == getAIResponse(text, [ok |-> FALSE, thrown |-> getGroqClientThrows])
       IN  IF text = << >>
           THEN UNCHANGED pageVars
           ELSE /\ input' = << >>
                /\ IF ~isGroqAvailable \/ ~hasGroqClient
                   THEN /\ isLoading' = FALSE
                        /\ IF r.ok
                           THEN /\ messages' = messages \o << UserMessage(text, FALSE),
                                                              AssistantMessage(r.content) >>
                                /\ chatError' = NoChatError
                                /\ sends' = [sends EXCEPT ![k] = [stage |-> "done", kind |-> "text",
                                                                  text |-> text, replies |-> 1]]
                           ELSE /\ messages' = Append(messages, UserMessage(text, FALSE))
                                /\ chatError' = SorryMessage
                                /\ sends' = [sends EXCEPT ![k] = [stage |-> "done", kind |-> "text",
                                                                  text |-> text, replies |-> 0]]
                   ELSE /\ messages' = Append(messages, UserMessage(text, FALSE))
                        /\ chatError' = NoChatError
                        /\ isLoading' = TRUE
                        /\ sends' = [sends EXCEPT ![k] = [stage |-> "responding", kind |-> "text",
                                                          text |-> text, replies |-> 0]]
                /\ UNCHANGED groqApiKey
    /\ UNCHANGED << widgetVars, refVars, envVars, runtimeVars, hostVars, callVars, chatVars >>

\* the recorder calls onSendVoice(blob): handleSendVoice up to the request
\* of transcribeAudio; without a usable client transcribeAudio throws at once
HandleSendVoice(blob) ==
    /\ mounted /\ ~disabled
    /\ CanSend
    /\ mounted' = FALSE
    /\ LET k == NextSend
       IN  IF ~hasGroqClient
           THEN /\ chatError' = transcribeAudioMessage(getGroqClientThrows)
                /\ isLoading' = FALSE
                /\ sends' = [sends EXCEPT ![k] = [stage |-> "done", kind |-> "voice",
                                                  text |-> << >>, replies |-> 0]]
           ELSE /\ chatError' = NoChatError
                /\ isLoading' = TRUE
                /\ sends' = [sends EXCEPT ![k] = [stage |-> "transcribing", kind |-> "voice",
                                                  text |-> << >>, replies |-> 0]]
    /\ UNCHANGED << messages, input, groqApiKey >>
    /\ UNCHANGED << isRecording, isPaused, duration, audioUrl, audioBlob, error, isPlaying >>
    /\ UNCHANGED << refVars, envVars, runtimeVars, hostVars, callVars, chatVars >>

\* TranscribeSettles without the finally block of handleSendVoice
TranscribeSettlesNoFinally(k, outcome) ==
    /\ sends[k].stage = "transcribing"
    /\ IF outcome.ok
       THEN /\ messages' = Append(messages, UserMessage(outcome.text, TRUE))
            /\ sends' = [sends EXCEPT ![k].stage = "responding", ![k].text = outcome.text]
            /\ UNCHANGED << isLoading, chatError >>
       ELSE /\ chatError' = transcribeAudioMessage(outcome.thrown)
            /\ sends' = [sends EXCEPT ![k].stage = "done"]
            /\ UNCHANGED << messages, isLoading >>
    /\ UNCHANGED << input, groqApiKey >>
    /\ UNCHANGED << widgetVars, refVars, envVars, runtimeVars, hostVars, callVars, chatVars >>

\* the transcription request of send k settles: handleSendVoice after its
\* first await, up to the request of getChatResponse
TranscribeSettles(k, outcome) ==
    /\ sends[k].stage = "transcribing"
    /\ IF outcome.ok
       THEN /\ messages' = Append(messages, UserMessage(outcome.text, TRUE))
            /\ sends' = [sends EXCEPT ![k].stage = "responding", ![k].text = outcome.text]
            /\ UNCHANGED << isLoading, chatError >>
       ELSE /\ chatError' = transcribeAudioMessage(outcome.thrown)
            /\ isLoading' = FALSE
            /\ sends' = [sends EXCEPT ![k].stage = "done"]
            /\ UNCHANGED messages
    /\ UNCHANGED << input, groqApiKey >>
    /\ UNCHANGED << widgetVars, refVars, envVars, runtimeVars, hostVars, callVars, chatVars >>

\* the chat request of send k settles: getAIResponse returns, the assistant
\* message is appended and the finally block clears the loading flag
ChatSettles(k, outcome) ==
    /\ sends[k].stage = "responding"
    /\ LET r == getAIResponse(sends[k].text, outcome)
       IN  IF r.ok
           THEN /\ messages' = Append(messages, AssistantMessage(r.content))
                /\ sends' = [sends EXCEPT ![k].stage = "done", ![k].replies = 1]
                /\ UNCHANGED chatError
           ELSE /\ chatError' = IF sends[k].kind = "voice" THEN r.thrown.message
                                ELSE SorryMessage
                /\ sends' = [sends EXCEPT ![k].stage = "done"]
                /\ UNCHANGED messages
    /\ isLoading' = FALSE
    /\ UNCHANGED << input, groqApiKey >>
    /\ UNCHANGED << widgetVars, refVars, envVars, runtimeVars, hostVars, callVars, chatVars >>

ChatNext ==
    \/ \E text \in ChatInputs : SetInput(text)
    \/ HandleSendText
    \/ OpenRecorder
    \/ CloseRecorder
    \/ HandleSendVoice(VoiceBlob)
    \/ \E k \in SendIds, outcome \in TranscribeOutcomes : TranscribeSettles(k, outcome)
    \/ \E k \in SendIds, outcome \in ChatOutcomes : ChatSettles(k, outcome)

SpecChat == InitChat /\ [][ChatNext]_vars

\* every request to the service eventually returns or fails: the settling of
\* a request is enabled by its stage alone and any outcome ends that stage, so
\* weak fairness of the settling with one outcome says no more than that the
\* request does not stay in flight for ever
ChatFairness ==
    \A k \in SendIds :
        /\ WF_vars(TranscribeSettles(k, [ok |-> TRUE, text |-> << >>]))
        /\ WF_vars(ChatSettles(k, [ok |-> TRUE, content |-> AiReply]))

SpecChatFair == SpecChat /\ ChatFairness

(* ------------------------------ the phase ------------------------------ *)
\* the phase of the recording session, as the rendered view shows it
Phase ==
    IF ~mounted THEN "Closed"
    ELSE IF isRecording THEN (IF isPaused THEN "Paused" ELSE "Recording")
    ELSE IF audioUrl # Null THEN "Ready"
    ELSE "Idle"

Pending == { k \in CallIds : calls[k] = "pending" }
LiveStreams == { k \in CallIds : tracks[k] = "live" }
ActiveRecorders == { r \in CallIds : Active(r) }

(* ------------------------------- claims -------------------------------- *)
\* C1: in every reachable state at most one elapsed-time ticker is active,
\* also when start() is invoked again before an earlier start() has acquired
\* the device.
C1_AtMostOneTicker == Cardinality(timers) <= 1

\* C2: while a start() awaits device acquisition the session stays Idle and a
\* further start() is rejected: at most one acquisition is outstanding and at
\* most one capture stream and one recorder are held.
C2_OneAcquisitionOneStreamOneRecorder ==
    /\ Cardinality(Pending) <= 1
    /\ Cardinality(LiveStreams) <= 1
    /\ Cardinality(ActiveRecorders) <= 1
    /\ (mounted /\ Pending # {}) => Phase = "Idle"

\* C3: cancel() never throws, and once it has been called no capture-device
\* track is live and no ticker runs, also when a pending acquisition completes
\* after the cancel.
C3_CancelLeavesNoResources ==
    /\ threw # "handleCancel"
    /\ cancelled > 0 => (LiveStreams = {} /\ timers = {})

\* C4: after send() or cancel() has closed the session, every preview URL the
\* recorder created has been revoked.
C4_ClosedSessionRevokedUrls ==
    (cancelled > 0 \/ Len(sent) > 0) => urls \subseteq revoked

\* the steps in which a start() fails
StartFails ==
    \/ StartRecording /\ ~supported
    \/ \E k \in CallIds, name \in RejectNames : AcquireReject(k, name)
    \/ \E k \in CallIds : AcquireResolve(k) /\ getSupportedMimeType(typeSupport) \notin typeSupport

\* C5: every failure of start() leaves the session Idle with a non-empty
\* error message, no capture-device track live and no ticker running, and the
\* start button available again.
C5_StartFailureLeavesIdle ==
    [][ (StartFails /\ mounted) =>
            /\ Phase' = "Idle"
            /\ error' # NoError
            /\ LiveStreams' = {}
            /\ timers' = {} ]_vars

\* C6: the artifact is set exactly once per session, at the transition into
\* Ready, and is never replaced afterwards.
C6_ArtifactSetOnce ==
    [][ /\ (audioUrl # Null => (audioUrl' = audioUrl /\ audioBlob' = audioBlob))
        /\ ((audioUrl = Null /\ audioUrl' # Null) => Phase' = "Ready") ]_vars

\* C7: in every reachable state of the mounted widget the artifact and its
\* preview URL are present if and only if the phase is Ready.
C7_ArtifactIffReady ==
    mounted =>
        /\ (audioBlob # NoBlob) <=> (audioUrl # Null)
        /\ (audioUrl # Null) <=> (Phase = "Ready")

\* C8: elapsedSeconds changes only by a tick delivered while Recording, and
\* then by exactly 1; it does not change while Paused (nor in any other
\* phase), neither by pause() nor by resume().
C8_DurationOnlyTicksWhileRecording ==
    [][ duration' # duration =>
            (Phase = "Recording" /\ duration' = duration + 1) ]_vars

\* C9: stop() stops the ticker; in Ready the artifact is present, every track
\* of the capture device is stopped, no ticker runs and the elapsed value no
\* longer changes.
C9_StopLeadsToQuietReady ==
    [][ /\ (StopRecording /\ threw' = threw) => timers' = {}
        /\ Phase' = "Ready" =>
              (audioBlob' # NoBlob /\ LiveStreams' = {} /\ timers' = {})
        /\ (Phase = "Ready" /\ Phase' = "Ready") => duration' = duration ]_vars

\* C10: unmounting the widget in any state releases the capture device, the
\* ticker and the preview URL the session holds.
C10_UnmountReleasesHeldResources ==
    [][ Unmount =>
            /\ (streamRef # Null => tracks'[streamRef] = "ended")
            /\ (timerRef # Null => timerRef \notin timers')
            /\ (audioUrl # Null => audioUrl \in revoked') ]_vars

\* C11: the artifact is built only in the step in which a recorder that has
\* ceased capture fires its stop event, and once the artifact is set no
\* fragment is appended to the chunk sequence.
C11_NoFragmentAfterArtifact ==
    [][ /\ audioBlob' # audioBlob =>
              \E r \in CallIds : recState[r] = "stopping" /\ recState'[r] = "inactive"
        /\ audioBlob # NoBlob => Len(audioChunksRef') <= Len(audioChunksRef) ]_vars

\* C12: the artifact a recorder's stop event produces has as payload the
\* concatenation, in delivery order, of exactly the non-empty fragments that
\* recorder delivered since its start (zero-length ones skipped, none dropped),
\* and is tagged with the negotiated format, also when nothing was delivered.
C12_ArtifactIsDeliveredFragments ==
    [][ \A r \in CallIds :
          (mounted /\ recState[r] = "stopping" /\ recState'[r] = "inactive") =>
              audioBlob' = << [ data |-> Concat(delivered[r]),
                                type |-> mimeType[r] ] >> ]_vars

\* C13: in a runtime without microphone-capture capability start() sets the
\* descriptive error and returns: no device-access request is ever issued and
\* no stream, recorder or ticker exists.
C13_UnsupportedFailsFast ==
    [][ ~supported =>
          /\ StartRecording => error' = UnsupportedMessage
          /\ \A k \in CallIds : calls'[k] = "none" /\ tracks'[k] = "none" /\ recState'[k] = "none"
          /\ streamRef' = Null /\ mediaRecorderRef' = Null /\ timers' = {} ]_vars

\* a start() has been refused for lack of capability
C13_Witness == mounted /\ ~supported /\ error = UnsupportedMessage

\* C14: a rejected device acquisition surfaces one of three distinct
\* messages: permission denial a message containing "permission", a missing
\* device a different message naming the microphone, any other failure a third
\* one; the recorder's error is exactly that message.
C14_RejectMessages ==
    [][ \A k \in CallIds, name \in RejectNames :
          (mounted /\ AcquireReject(k, name)) =>
              /\ name = "NotAllowedError" =>
                    /\ error' = PermissionDeniedMessage
                    /\ includes(error', << "permission" >>)
              /\ name = "NotFoundError" =>
                    /\ error' = NoMicrophoneMessage
                    /\ includes(error', << "microphone" >>)
                    /\ ~includes(error', << "permission" >>)
              /\ name \notin {"NotAllowedError", "NotFoundError"} =>
                    /\ error' = AccessFailedMessage
                    /\ error' \notin {PermissionDeniedMessage, NoMicrophoneMessage} ]_vars

\* a permission denial has been surfaced
C14_Witness == mounted /\ error = PermissionDeniedMessage /\ \E k \in CallIds : calls[k] = "done" /\ tracks[k] = "none"

\* C15: the send callback is invoked only by send() in Ready and receives
\* exactly the finalized artifact; cancel() always notifies the caller of the
\* cancellation and never invokes the send callback.
C15_CallerContract ==
    [][ /\ sent' # sent =>
              /\ HandleSend /\ Phase = "Ready" /\ audioBlob # NoBlob
              /\ sent' = Append(sent, audioBlob[1])
              /\ cancelled' = cancelled
        /\ HandleCancel => (cancelled' = cancelled + 1 /\ sent' = sent)
        /\ cancelled' # cancelled => HandleCancel ]_vars

\* C16: reaching 300 elapsed seconds does not change the phase: a tick leaves
\* the phase as it is and adds 1 also past 300, the session leaves Recording or
\* Paused only by stop(), cancel() or unmount, and the advisory is shown
\* exactly in the Recording and Paused states with elapsedSeconds >= 300.
C16_AdvisoryOnly ==
    [][ /\ duration' # duration => (Phase' = Phase /\ duration' = duration + 1)
        /\ ((\E t \in TimerIds : LongTick(t)) /\ mounted) => duration' = duration + 1
        /\ (Phase \in {"Recording", "Paused"} /\ Phase' \notin {"Recording", "Paused"}) =>
              (StopRecording \/ HandleCancel \/ Unmount)
        /\ Advisory' <=> (Phase' \in {"Recording", "Paused"} /\ duration' >= 300) ]_vars

\* a recording that has run past 300 seconds, and a paused one
C16_Witness == Phase = "Paused" /\ duration = 301 /\ Advisory

(* ----------------------- claims on the classifier ----------------------- *)
\* term is a contiguous part of text
Contains(text, term) ==
    \E i \in 1..Len(text) :
        /\ i + Len(term) - 1 <= Len(text)
        /\ SubSeq(text, i, i + Len(term) - 1) = term

ContainsSome(text, list) == \E n \in 1..Len(list) : Contains(toLowerCase(text), list[n])

\* text with the case of every letter changed
SwapCase(text) ==
    [i \in 1..Len(text) |->
        IF \E n \in 1..26 : UpperCaseLetters[n] = text[i]
        THEN LowerCaseLetters[CHOOSE n \in 1..26 : UpperCaseLetters[n] = text[i]]
        ELSE IF \E n \in 1..26 : LowerCaseLetters[n] = text[i]
        THEN UpperCaseLetters[CHOOSE n \in 1..26 : LowerCaseLetters[n] = text[i]]
        ELSE text[i]]

\* a text has been classified
Classified == riskLevel # NoResult

\* C17: classify returns high iff the lowercased text contains a high-risk
\* term as a substring, otherwise medium iff it contains a medium-risk term,
\* otherwise low; a text matching both sets is high, the two examples are
\* classified high and medium, and letter case does not change the result.
C17_ClassifyByTerms ==
    Classified =>
        /\ riskLevel = "high" <=> ContainsSome(userMessage, highRiskWords)
        /\ riskLevel = "medium" <=>
              (~ContainsSome(userMessage, highRiskWords) /\ ContainsSome(userMessage, mediumRiskWords))
        /\ riskLevel = "low" <=>
              (~ContainsSome(userMessage, highRiskWords) /\ ~ContainsSome(userMessage, mediumRiskWords))
        /\ userMessage = ExampleHitAndScared => riskLevel = "high"
        /\ userMessage = ExampleIsolated => riskLevel = "medium"
        /\ analyzeRisk(SwapCase(userMessage)) = riskLevel
        /\ analyzeRisk(toLowerCase(userMessage)) = riskLevel

\* a text in mixed case with a high-risk and a medium-risk term, classified high
C17_Witness ==
    /\ riskLevel = "high"
    /\ ContainsSome(userMessage, mediumRiskWords)
    /\ userMessage # toLowerCase(userMessage)

\* the rules of the fallback response, in their order
RuleHolds(i, text) ==
    LET t == toLowerCase(text) IN
    CASE i = 1 -> ContainsSome(text, highRiskWords)
      [] i = 2 -> ContainsSome(text, mediumRiskWords)
      [] i = 3 -> Contains(t, << "h", "e", "l", "p" >>) \/ Contains(t, << "w", "h", "a", "t", " ", "d", "o", " ", "i", " ", "d", "o" >>) \/ Contains(t, << "w", "h", "a", "t", " ", "s", "h", "o", "u", "l", "d", " ", "i" >>)
      [] i = 4 -> Contains(t, << "l", "e", "a", "v", "e" >>) \/ Contains(t, << "l", "e", "a", "v", "i", "n", "g" >>)
      [] i = 5 -> Contains(t, << "f", "a", "u", "l", "t" >>) \/ Contains(t, << "b", "l", "a", "m", "e" >>) \/ Contains(t, << "m", "y", " ", "f", "a", "u", "l", "t" >>)
      [] i = 6 -> Contains(t, << "c", "h", "i", "l", "d", "r", "e", "n" >>) \/ Contains(t, << "k", "i", "d", "s" >>) \/ Contains(t, << "c", "h", "i", "l", "d" >>)
      [] i = 7 -> TRUE

RuleResponse ==
    << HighRiskResponse, MediumRiskResponse, HelpResponse, LeavingResponse,
       SelfBlameResponse, ChildrenResponse, DefaultResponse >>

\* C18: the fallback response is the message of the earliest rule, in the
\* order high-risk, medium-risk, help-seeking, leaving, self-blame, children,
\* default, that the text satisfies; a text mentioning both leaving and
\* children gets the leaving message.
C18_FirstMatchingRule ==
    Classified =>
        /\ \A i \in 1..7 :
              (RuleHolds(i, userMessage) /\ \A j \in 1..(i - 1) : ~RuleHolds(j, userMessage))
                  => response = RuleResponse[i]
        /\ userMessage = ExampleLeavingChildren => response = LeavingResponse

\* a text that mentions leaving and children and got the leaving message
C18_Witness ==
    /\ RuleHolds(4, userMessage) /\ RuleHolds(6, userMessage)
    /\ response = LeavingResponse

\* C19 as stated: every text gets a result in {low, medium, high}, a text
\* with no risk term is low, and a text classified low receives the generic
\* default response.
C19_LowGetsDefault ==
    Classified =>
        /\ riskLevel \in {"low", "medium", "high"}
        /\ (\A i \in 1..2 : ~RuleHolds(i, userMessage)) => riskLevel = "low"
        /\ userMessage = ExampleGoodDay => riskLevel = "low"
        /\ riskLevel = "low" => response = DefaultResponse

\* C19 amended: every text gets a result in {low, medium, high}, a text with
\* no risk term is low, and a text classified low that satisfies none of the
\* help-seeking, leaving, self-blame and children rules receives the generic
\* default response.
C19_LowUnmatchedGetsDefault ==
    Classified =>
        /\ riskLevel \in {"low", "medium", "high"}
        /\ (\A i \in 1..2 : ~RuleHolds(i, userMessage)) => riskLevel = "low"
        /\ userMessage = ExampleGoodDay => riskLevel = "low"
        /\ (riskLevel = "low" /\ \A i \in 3..6 : ~RuleHolds(i, userMessage))
              => response = DefaultResponse

\* a text with no term of any rule, classified low, with the default response
C19_Witness ==
    /\ userMessage = ExampleGoodDay
    /\ riskLevel = "low"
    /\ response = DefaultResponse

(* --------------------- claims on format negotiation --------------------- *)
\* the positions of the preference list the runtime supports
SupportedPositions == { n \in 1..Len(types) : types[n] \in typeSupport }

\* C20: format negotiation returns the first encoding of the preference list
\* that the runtime supports, and the default "audio/webm" when it supports
\* none; a recorder exists only configured with that value, and every
\* artifact, also one handed to the host, is tagged with it.
C20_NegotiatedFormat ==
    /\ \A k \in CallIds : mimeType[k] # "" =>
          /\ SupportedPositions # {} =>
                \E n \in SupportedPositions :
                    /\ mimeType[k] = types[n]
                    /\ \A m \in SupportedPositions : n <= m
          /\ SupportedPositions = {} => mimeType[k] = "audio/webm"
    /\ \A r \in CallIds : recState[r] # "none" =>
          /\ mimeType[r] \in typeSupport
          /\ \A m \in SupportedPositions : types[m] = mimeType[r] \/ \E n \in SupportedPositions : n < m
    /\ audioBlob # NoBlob => \E k \in CallIds : mimeType[k] # "" /\ audioBlob[1].type = mimeType[k]
    /\ \A i \in 1..Len(sent) : \E k \in CallIds : mimeType[k] # "" /\ sent[i].type = mimeType[k]

\* an artifact tagged with the third type of the list, the first one that the
\* runtime supports, has been handed to the host
C20_Witness ==
    /\ typeSupport = {"audio/ogg;codecs=opus", "audio/mp4"}
    /\ Len(sent) > 0
    /\ sent[1].type = "audio/ogg;codecs=opus"

(* ------------------ claims on preview and pause/resume ------------------ *)
\* C22: in Ready, play()/pause() and the end of playback change only
\* previewPlaying: phase, artifact, preview URL and elapsedSeconds stay as they
\* are; outside Ready the toggle changes nothing and previewPlaying is false.
C22_PreviewToggleOnly ==
    [][ /\ (PlayAudio \/ AudioEnded) =>
              /\ Phase = "Ready" /\ Phase' = "Ready"
              /\ UNCHANGED << audioBlob, audioUrl, duration >>
              /\ AudioEnded => ~isPlaying'
        /\ isPlaying' # isPlaying => (PlayAudio \/ AudioEnded)
        /\ (mounted /\ Phase # "Ready") => ~ENABLED (playAudio /\ vars' # vars)
        /\ (mounted' /\ Phase' # "Ready") => ~isPlaying' ]_vars

\* C23: pause() and resume() change only the Recording/Paused distinction and
\* the ticker: the accumulated chunks, elapsedSeconds, the capture device and
\* the absence of an artifact stay as they are, and both change nothing when
\* the session is Idle or Ready.
C23_PauseResumeFrame ==
    [][ /\ PauseRecording =>
              /\ UNCHANGED << audioChunksRef, duration, streamRef, tracks, mediaRecorderRef,
                              calls, audioUrl, audioBlob >>
              /\ Phase' # Phase => { Phase, Phase' } = { "Recording", "Paused" }
        /\ (Phase \in {"Idle", "Ready"}) => ~ENABLED (pauseRecording /\ vars' # vars) ]_vars

\* a paused recording that keeps its chunks, with the ticker stopped
C23_Witness ==
    /\ Phase = "Paused" /\ audioChunksRef # << >> /\ timers = {}
    /\ recState[mediaRecorderRef] = "paused"

(* ------------------------- claims on the chat page ---------------------- *)
\* the sends that await the transcription or the response
InFlight == { k \in SendIds : sends[k].stage \in {"transcribing", "responding"} }

\* C24: at most one send is in progress at a time: while a send awaits the
\* pipeline the loading flag is set, and while it is set no text send, voice
\* send, recorder opening or recorder start can begin through the UI.
C24_OneSendAtATime ==
    /\ Cardinality(InFlight) <= 1
    /\ InFlight # {} => isLoading
    /\ isLoading =>
          /\ ~mounted
          /\ ~ENABLED (HandleSendText /\ sends' # sends)
          /\ ~ENABLED HandleSendVoice(VoiceBlob)
          /\ ~ENABLED OpenRecorder
          /\ ~ENABLED StartRecording

\* a voice send awaits its transcription after an earlier text send got its reply
C24_Witness ==
    /\ sends[1].kind = "text" /\ sends[1].stage = "done"
    /\ sends[2].kind = "voice" /\ sends[2].stage = "transcribing"
    /\ isLoading

\* C25: every text or voice send eventually clears the loading flag, whether
\* the pipeline succeeds, the transcription fails or the response generation
\* fails, provided each request eventually returns or fails.
C25_LoadingEventuallyCleared ==
    /\ isLoading ~> ~isLoading
    /\ \A k \in SendIds : (sends[k].stage # "none") ~> (sends[k].stage = "done" /\ ~isLoading)

\* a voice send whose transcription request failed has cleared the flag
C25_Witness ==
    /\ hasGroqClient
    /\ \E k \in SendIds : sends[k].kind = "voice" /\ sends[k].stage = "done" /\ sends[k].replies = 0
    /\ chatError # NoChatError
    /\ ~isLoading

\* the request did not give a reply: it failed, or its content is empty
NoReply(outcome) == ~outcome.ok \/ outcome.content = ""

\* C26: response generation never fails towards the host: without a
\* configured service, or when its request fails, the reply is the rule-based
\* fallback response for the same text; a text send that is not blank
\* appends the user message and then exactly one assistant message, and the
\* message list only grows.
C26_TextSendAlwaysAnswered ==
    [][ /\ Len(messages') >= Len(messages)
        /\ SubSeq(messages', 1, Len(messages)) = messages
        /\ (HandleSendText /\ trim(input) # << >>) =>
              /\ messages'[Len(messages) + 1] = UserMessage(trim(input), FALSE)
              /\ IF hasGroqClient
                 THEN Len(messages') = Len(messages) + 1 /\ isLoading'
                 ELSE /\ Len(messages') = Len(messages) + 2
                      /\ messages'[Len(messages) + 2] =
                            AssistantMessage(generateFallbackResponse(trim(input)))
                      /\ ~isLoading'
        /\ \A k \in SendIds, outcome \in ChatOutcomes :
              (ChatSettles(k, outcome) /\ sends[k].kind = "text") =>
                 /\ messages[Len(messages)].role = "user"
                 /\ messages[Len(messages)].content = sends[k].text
                 /\ messages' = Append(messages, AssistantMessage(
                                   IF NoReply(outcome)
                                   THEN generateFallbackResponse(sends[k].text)
                                   ELSE outcome.content))
                 /\ sends'[k].replies = 1 /\ chatError' = NoChatError ]_vars

\* a text send whose request failed got the fallback response to its text
C26_Witness ==
    /\ hasGroqClient
    /\ sends[1].kind = "text" /\ sends[1].stage = "done" /\ sends[1].replies = 1
    /\ sends[1].text = ExampleNeedHelp
    /\ messages[Len(messages)] = AssistantMessage(HelpResponse)

\* C21: a failure of the transcription or of the response generation makes
\* the host fall back to the canned response, so every voice message that was
\* sent and has been processed got an assistant reply.
C21_VoiceSendAlwaysAnswered ==
    \A k \in SendIds :
        (sends[k].kind = "voice" /\ sends[k].stage = "done") =>
            /\ sends[k].replies = 1
            /\ messages[Len(messages)].role = "assistant"

=============================================================================
